---- MODULE Spec2Model ----
(***************************************************************************)
(* The local data layer of the workout tracker (db.js, schema version 4):  *)
(* six Dexie tables, the entity helpers, the PR engine and export/import.  *)
(* Every await of a storage request is a suspension point, so a helper is  *)
(* one action per awaited request; requests made inside db.transaction run *)
(* under that transaction's table locks and are rolled back on abort.      *)
(***************************************************************************)
EXTENDS Integers, Sequences, FiniteSets, TLC

\* ---------------------------------------------------------------- bounds
MaxId == 2        \* keys an auto-increment table hands out: 1..MaxId
MaxTasks == 2     \* async calls in flight at once
MaxClock == 1     \* ticks of the clock new Date() reads
MaxItems == 3     \* template items ever added: item ids 1..MaxItems

\* ---------------------------------------------------------------- values
\* JavaScript null / undefined in a numeric field, and a value that is not a
\* number (a string such as "abc"); the numbers are the naturals.
Null == -1
Str == -2
IsNumber(v) == v >= 0

Ids == 1..MaxId
Tasks == 1..MaxTasks
TableNames == {"exercises", "workouts", "sets", "prs", "templates", "templateItems"}
AutoTables == TableNames \ {"prs"}

\* Two calendar days and an ISO timestamp on the first of them, as character
\* sequences; <<>> is the empty string (what String(dateISO || "") gives for
\* a missing date).
DayA == <<"2","0","2","4","-","0","1","-","0","1">>
DayB == <<"2","0","2","4","-","0","1","-","0","2">>
DateInputs == {DayA, DayB, DayA \o <<"T","0","9",":","3","0">>}
NoteInputs == {""}

Min(a, b) == IF a < b THEN a ELSE b
Max(a, b) == IF a > b THEN a ELSE b

RECURSIVE SetMax(_)
SetMax(S) == IF S = {} THEN 0
             ELSE LET x == CHOOSE y \in S : TRUE IN Max(x, SetMax(S \ {x}))

SetMin(S) == CHOOSE x \in S : \A y \in S : x <= y

\* ---------------------------------------------------------------- state
VARIABLES
  exercises,      \* table: id -> [id, name, type, isTimed, createdAt]
  workouts,       \* table: id -> [id, dateISO, notes]
  sets,           \* table: id -> [id, workoutId, exerciseId, setIndex, reps, weightKg, durationSec]
  prs,            \* table: exerciseId -> [exerciseId, bestWeight, bestReps, bestDurationSec, best1RM, updatedAt]
  templates,      \* table: id -> [id, name, createdAt]
  templateItems,  \* table: id -> [id, templateId, exerciseId, order, defaultReps, defaultDurationSec, defaultWeightKg]
  nextId,         \* the key generator of each "++id" table
  now,            \* the clock new Date() reads
  calls,          \* task -> the async call it is running and where it is suspended
  ret             \* the step taken last and, when it ended a call, what the call returned

tables == <<exercises, workouts, sets, prs, templates, templateItems>>
vars == <<exercises, workouts, sets, prs, templates, templateItems, nextId, now, calls, ret>>

\* ---------------------------------------------------------------- Dexie tables
EmptyTable == [k \in {} |-> {}]

\* Table.put / one row of bulkPut: insert or overwrite by primary key.
Put(table, key, row) ==
  [k \in (DOMAIN table) \cup {key} |-> IF k = key THEN row ELSE table[k]]

\* Table.delete(key) and Collection.delete(): remove the rows with these keys.
DeleteKeys(table, keys) == [k \in (DOMAIN table) \ keys |-> table[k]]

\* The primary key path of a table: "++id", and "exerciseId" for prs.
KeyPath(T) == IF T = "prs" THEN "exerciseId" ELSE "id"

\* Table.toArray(): the rows, without their keys.
ToArray(table) == {table[k] : k \in DOMAIN table}

\* The primary keys of rows under a key path.
KeysOf(rows, keyPath) == {r[keyPath] : r \in rows}

\* Table.bulkPut(rows): each row is inserted or overwrites the row under the
\* key found at the key path (the rows of one call have distinct keys here).
BulkPut(table, rows, keyPath) ==
  [k \in (DOMAIN table) \cup KeysOf(rows, keyPath) |->
     IF k \in KeysOf(rows, keyPath) THEN CHOOSE r \in rows : r[keyPath] = k ELSE table[k]]

\* The key generator after explicit keys were put: it never moves back, and
\* Table.clear() does not reset it.
BumpGen(gen, keys) == Max(gen, SetMax(keys) + 1)

Store == [exercises |-> exercises, workouts |-> workouts, sets |-> sets,
          prs |-> prs, templates |-> templates, templateItems |-> templateItems]

\* ---------------------------------------------------------------- calls
\* op and pc: the helper and the request it is suspended before; arg and loc:
\* its argument and locals; tx: what its transaction remembers.
Idle == [op |-> "idle", pc |-> "idle", arg |-> <<>>, loc |-> <<>>, tx |-> <<>>]

Call(t, op, pc, arg, loc) ==
  [op |-> op, pc |-> pc, arg |-> arg, loc |-> loc, tx |-> calls[t].tx]

Step(t, op, step, done, arg, val) ==
  [task |-> t, op |-> op, step |-> step, done |-> done, arg |-> arg, val |-> val]

IsIdle(t) == calls[t].op = "idle"

\* ---------------------------------------------------------------- initial state
Init ==
  /\ exercises = EmptyTable
  /\ workouts = EmptyTable
  /\ sets = EmptyTable
  /\ prs = EmptyTable
  /\ templates = EmptyTable
  /\ templateItems = EmptyTable
  /\ nextId = [T \in AutoTables |-> 1]
  /\ now = 0
  /\ calls = [t \in Tasks |-> Idle]
  /\ ret = Step(0, "none", "none", FALSE, <<>>, Null)

\* ---------------------------------------------------------------- transactions
\* db.transaction(mode, tables..., fn): the tables a call holds while its
\* transaction is open. IndexedDB runs transactions with overlapping scopes one
\* after another when either is read-write.
\* The three deletes of deleteExercise issued outside a transaction would hold
\* no table.
DeleteExerciseUnscoped == {}
DeleteExerciseScope == {"sets", "prs", "exercises"}
DeleteTemplateScope == {"templates", "templateItems"}
ImportAllScope == TableNames
\* The six reads of exportAll issued outside a transaction would hold no table.
ExportAllUnscoped == {}
ExportAllScope == TableNames

TxPcs == {"tx-sets", "tx-prs", "tx-exercises", "tx-commit", "tx-items", "tx-template",
          "tx-clear", "tx-put", "tx-read"}

ScopeOf(c) ==
  IF c.pc \notin TxPcs THEN {}
  ELSE IF c.op = "deleteExercise" THEN DeleteExerciseScope
  ELSE IF c.op = "deleteTemplate" THEN DeleteTemplateScope
  ELSE IF c.op = "importAll" THEN ImportAllScope
  ELSE IF c.op = "exportAll" THEN ExportAllScope
  ELSE {}

IsWriteTx(c) == c.op \in {"deleteExercise", "deleteTemplate", "importAll"}

\* A request of task t that writes table T waits for every open transaction
\* of another call that holds T; one that reads T waits for the read-write ones.
WriteBlocked(t, T) == \E u \in Tasks \ {t} : T \in ScopeOf(calls[u])
ReadBlocked(t, T) == \E u \in Tasks \ {t} : T \in ScopeOf(calls[u]) /\ IsWriteTx(calls[u])

\* ---------------------------------------------------------------- workouts
\* String(dateISO || "").slice(0, 10)
CleanDate(dateISO) == SubSeq(dateISO, 1, Min(Len(dateISO), 10))

\* db.workouts.where("dateISO").equals(d): the keys, in index order.
WorkoutsOn(d) == {k \in DOMAIN workouts : workouts[k].dateISO = d}

\* createWorkout, first request: look the date up; an existing workout ends
\* the call with its id.
CreateWorkoutLookup(t, dateISO, notes) ==
  /\ IsIdle(t)
  /\ ~ReadBlocked(t, "workouts")
  /\ LET cleanDate == CleanDate(dateISO)
         found == WorkoutsOn(cleanDate)
     IN IF found # {}
        THEN /\ calls' = calls
             /\ ret' = Step(t, "createWorkout", "lookup", TRUE, cleanDate, SetMin(found))
        ELSE /\ calls' = [calls EXCEPT ![t] =
                            Call(t, "createWorkout", "add", cleanDate, notes)]
             /\ ret' = Step(t, "createWorkout", "lookup", FALSE, cleanDate, Null)
  /\ UNCHANGED <<tables, nextId, now>>

\* createWorkout, second request: db.workouts.add({dateISO: cleanDate, notes}).
CreateWorkoutAdd(t) ==
  /\ calls[t].op = "createWorkout" /\ calls[t].pc = "add"
  /\ ~WriteBlocked(t, "workouts")
  /\ nextId.workouts <= MaxId
  /\ LET id == nextId.workouts
     IN /\ workouts' = Put(workouts, id,
                           [id |-> id, dateISO |-> calls[t].arg, notes |-> calls[t].loc])
        /\ ret' = Step(t, "createWorkout", "add", TRUE, calls[t].arg, id)
  /\ nextId' = [nextId EXCEPT !.workouts = @ + 1]
  /\ calls' = [calls EXCEPT ![t] = Idle]
  /\ UNCHANGED <<exercises, sets, prs, templates, templateItems, now>>

\* ---------------------------------------------------------------- exercises
ExerciseTypes == {"weighted", "bodyweight"}

\* String(name || "").trim(), on names given as character sequences.
RECURSIVE TrimLeft(_)
TrimLeft(s) == IF s # <<>> /\ Head(s) = " " THEN TrimLeft(Tail(s)) ELSE s
RECURSIVE TrimRight(_)
TrimRight(s) == IF s # <<>> /\ s[Len(s)] = " " THEN TrimRight(SubSeq(s, 1, Len(s) - 1)) ELSE s
Trim(s) == TrimRight(TrimLeft(s))

\* new Date().toISOString(): the reading of the clock at the time of the call.
Clock == {now}

\* Time passes between two steps of the program.
Tick ==
  /\ now < MaxClock
  /\ now' = now + 1
  /\ ret' = Step(0, "tick", "tick", FALSE, <<>>, Null)
  /\ UNCHANGED <<tables, nextId, calls>>

\* addExercise({name, type, isTimed})
AddExercise(t, name, type, isTimed) ==
  /\ IsIdle(t)
  /\ LET clean == Trim(name)
     IN IF clean = <<>> \/ type \notin ExerciseTypes
        THEN /\ ret' = Step(t, "addExercise", "validate", TRUE, clean, "Error")
             /\ UNCHANGED <<tables, nextId, now>>
        ELSE /\ ~WriteBlocked(t, "exercises")
             /\ nextId.exercises <= MaxId
             /\ \E stamp \in Clock :
                  /\ now' = stamp
                  /\ exercises' = Put(exercises, nextId.exercises,
                        [id |-> nextId.exercises, name |-> clean, type |-> type,
                         isTimed |-> isTimed, createdAt |-> stamp])
             /\ nextId' = [nextId EXCEPT !.exercises = @ + 1]
             /\ ret' = Step(t, "addExercise", "add", TRUE, clean, nextId.exercises)
             /\ UNCHANGED <<workouts, sets, prs, templates, templateItems>>
  /\ UNCHANGED calls

\* db.sets.where("exerciseId").equals(id): the keys.
SetsOf(table, e) == {k \in DOMAIN table : table[k].exerciseId = e}

\* The test count > 0 of updateExerciseTimed, and the same test off by one.
HasLoggedSetsOff(count) == count > 1
HasLoggedSets(count) == count > 0

\* updateExerciseTimed, first request: count the exercise's sets; any set
\* rejects the call.
UpdateExerciseTimedCount(t, id, isTimed) ==
  /\ IsIdle(t)
  /\ ~ReadBlocked(t, "sets")
  /\ LET count == Cardinality(SetsOf(sets, id))
     IN IF HasLoggedSets(count)
        THEN /\ calls' = calls
             /\ ret' = Step(t, "updateExerciseTimed", "count", TRUE, id, "Error")
        ELSE /\ calls' = [calls EXCEPT ![t] =
                            Call(t, "updateExerciseTimed", "update", id, isTimed)]
             /\ ret' = Step(t, "updateExerciseTimed", "count", FALSE, id, Null)
  /\ UNCHANGED <<tables, nextId, now>>

\* updateExerciseTimed, second request: db.exercises.update(id, {isTimed}),
\* which changes nothing when the row is gone.
UpdateExerciseTimedUpdate(t) ==
  /\ calls[t].op = "updateExerciseTimed" /\ calls[t].pc = "update"
  /\ ~WriteBlocked(t, "exercises")
  /\ LET id == calls[t].arg
     IN /\ exercises' = IF id \in DOMAIN exercises
                        THEN [exercises EXCEPT ![id].isTimed = calls[t].loc]
                        ELSE exercises
        /\ ret' = Step(t, "updateExerciseTimed", "update", TRUE, id,
                       IF id \in DOMAIN exercises THEN 1 ELSE 0)
  /\ calls' = [calls EXCEPT ![t] = Idle]
  /\ UNCHANGED <<workouts, sets, prs, templates, templateItems, nextId, now>>

\* ---------------------------------------------------------------- sets
\* typeof v === "number" ? v : null
NumberOrNull(v) == IF IsNumber(v) THEN v ELSE Null

\* A test that takes only a missing value for falsy.
FalsyNullOnly(v) == v = Null

\* !x for an id or an index: undefined, null and 0 are falsy.
Falsy(v) == v = Null \/ v = 0

\* The required fields of a call of addSet.
AddSetArg(workoutId, exerciseId, setIndex) ==
  [workoutId |-> workoutId, exerciseId |-> exerciseId, setIndex |-> setIndex]

\* addSet({workoutId, exerciseId, setIndex, reps, weightKg, durationSec})
AddSet(t, workoutId, exerciseId, setIndex, reps, weightKg, durationSec) ==
  /\ IsIdle(t)
  /\ IF Falsy(workoutId) \/ Falsy(exerciseId) \/ Falsy(setIndex)
     THEN /\ ret' = Step(t, "addSet", "validate", TRUE,
                           AddSetArg(workoutId, exerciseId, setIndex), "Error")
          /\ UNCHANGED <<tables, nextId>>
     ELSE /\ ~WriteBlocked(t, "sets")
          /\ nextId.sets <= MaxId
          /\ sets' = Put(sets, nextId.sets,
                [id |-> nextId.sets, workoutId |-> workoutId, exerciseId |-> exerciseId,
                 setIndex |-> setIndex, reps |-> NumberOrNull(reps),
                 weightKg |-> NumberOrNull(weightKg),
                 durationSec |-> NumberOrNull(durationSec)])
          /\ nextId' = [nextId EXCEPT !.sets = @ + 1]
          /\ ret' = Step(t, "addSet", "add", TRUE,
                           AddSetArg(workoutId, exerciseId, setIndex), nextId.sets)
          /\ UNCHANGED <<exercises, workouts, prs, templates, templateItems>>
  /\ UNCHANGED <<calls, now>>

\* Table.update(key, changes): the row with the changed fields written over it.
Modify(row, patch) ==
  [f \in (DOMAIN row) \cup (DOMAIN patch) |-> IF f \in DOMAIN patch THEN patch[f] ELSE row[f]]

\* Table.get(key): the row, or undefined; written {row} or {}.
TableGet(table, key) == IF key \in DOMAIN table THEN {table[key]} ELSE {}

\* A return value that takes the workout of the row for its exercise.
WorkoutIdOf(existing) == IF existing = {} THEN Null ELSE (CHOOSE r \in existing : TRUE).workoutId

\* existing?.exerciseId ?? null
ExerciseIdOf(existing) == IF existing = {} THEN Null ELSE (CHOOSE r \in existing : TRUE).exerciseId

\* updateSet, first request: existing = await db.sets.get(id).
UpdateSetGet(t, id, patch) ==
  /\ IsIdle(t)
  /\ ~ReadBlocked(t, "sets")
  /\ calls' = [calls EXCEPT ![t] =
        Call(t, "updateSet", "update", id,
             [patch |-> patch, existing |-> TableGet(sets, id)])]
  /\ ret' = Step(t, "updateSet", "get", FALSE, id, Null)
  /\ UNCHANGED <<tables, nextId, now>>

\* updateSet, second request: db.sets.update(id, patch); returns
\* existing?.exerciseId ?? null.
UpdateSetUpdate(t) ==
  /\ calls[t].op = "updateSet" /\ calls[t].pc = "update"
  /\ ~WriteBlocked(t, "sets")
  /\ LET id == calls[t].arg
     IN sets' = IF id \in DOMAIN sets
                THEN [sets EXCEPT ![id] = Modify(@, calls[t].loc.patch)]
                ELSE sets
  /\ ret' = Step(t, "updateSet", "update", TRUE, calls[t].arg,
                ExerciseIdOf(calls[t].loc.existing))
  /\ calls' = [calls EXCEPT ![t] = Idle]
  /\ UNCHANGED <<exercises, workouts, prs, templates, templateItems, nextId, now>>

\* deleteSet, first request: existing = await db.sets.get(id).
DeleteSetGet(t, id) ==
  /\ IsIdle(t)
  /\ ~ReadBlocked(t, "sets")
  /\ calls' = [calls EXCEPT ![t] =
        Call(t, "deleteSet", "delete", id, [existing |-> TableGet(sets, id)])]
  /\ ret' = Step(t, "deleteSet", "get", FALSE, id, Null)
  /\ UNCHANGED <<tables, nextId, now>>

\* deleteSet, second request: db.sets.delete(id).
DeleteSetDelete(t) ==
  /\ calls[t].op = "deleteSet" /\ calls[t].pc = "delete"
  /\ ~WriteBlocked(t, "sets")
  /\ sets' = DeleteKeys(sets, {calls[t].arg})
  /\ ret' = Step(t, "deleteSet", "delete", TRUE, calls[t].arg,
                ExerciseIdOf(calls[t].loc.existing))
  /\ calls' = [calls EXCEPT ![t] = Idle]
  /\ UNCHANGED <<exercises, workouts, prs, templates, templateItems, nextId, now>>

\* ---------------------------------------------------------------- PR engine
\* Math.round(n / d) for n >= 0, d > 0: halves round up.
RoundDiv(n, d) == (2 * n + d) \div (2 * d)

\* v || 0
OrZero(v) == IF v = Null THEN 0 ELSE v

\* Number(v || 0) followed by the test !x: null, 0 and NaN (a string that is
\* no number) all count as 0.
NumberOrZero(v) == IF IsNumber(v) THEN v ELSE 0

\* epley1RM(weight, reps): the Epley estimate rounded to the nearest integer;
\* before it, the estimate cut off instead of rounded.
epley1RMTruncated(weight, reps) ==
  LET w == NumberOrZero(weight)
      r == NumberOrZero(reps)
  IN IF w = 0 \/ r = 0 THEN 0 ELSE (w * (30 + r)) \div 30
epley1RM(weight, reps) ==
  LET w == NumberOrZero(weight)
      r == NumberOrZero(reps)
  IN IF w = 0 \/ r = 0 THEN 0 ELSE RoundDiv(w * (30 + r), 30)

\* Math.max(0, ...vals) || null: NaN when a value is no number, and NaN and 0
\* both give null.
MaxOrNull(vals) ==
  IF Str \in vals THEN Null
  ELSE LET m == SetMax(vals \cup {0}) IN IF m = 0 THEN Null ELSE m

\* The snapshot updatePRForExercise builds from the sets it loaded.
PRNext(exerciseId, loaded, stamp) ==
  [exerciseId |-> exerciseId,
   bestWeight |-> MaxOrNull({OrZero(s.weightKg) : s \in loaded}),
   bestReps |-> MaxOrNull({OrZero(s.reps) : s \in loaded}),
   bestDurationSec |-> MaxOrNull({OrZero(s.durationSec) : s \in loaded}),
   best1RM |-> MaxOrNull({epley1RM(OrZero(s.weightKg), OrZero(s.reps)) : s \in loaded}),
   updatedAt |-> stamp]

\* What updatePRForExercise resolves to.
PRResult(next) == [current |-> next]

RECURSIVE SortedSeq(_)
SortedSeq(S) == IF S = {} THEN <<>> ELSE <<SetMin(S)>> \o SortedSeq(S \ {SetMin(S)})

PRReadBlocked(t) ==
  ReadBlocked(t, "exercises") \/ ReadBlocked(t, "sets") \/ ReadBlocked(t, "prs")

\* A test that takes every exercise for present.
ExerciseMissingNever(e) == FALSE

\* if (!ex): db.exercises.get(e) found no row.
ExerciseMissing(e) == e \notin DOMAIN exercises

\* The three reads of updatePRForExercise(e), issued together, and what the
\* call does with them; rest are the exercises recalcAllPRs still has to do.
PRLoad(t, op, arg, e, rest) ==
  /\ ~PRReadBlocked(t)
  /\ IF ExerciseMissing(e)
     THEN /\ calls' = [calls EXCEPT ![t] =
                IF rest = <<>> THEN Idle
                ELSE Call(t, op, "pr-load", arg, [todo |-> rest, next |-> Null, prev |-> {}])]
          /\ ret' = Step(t, op, "pr-load", rest = <<>>, e, Null)
          /\ now' = now
     ELSE \E stamp \in Clock :
          /\ now' = stamp
          /\ calls' = [calls EXCEPT ![t] =
                Call(t, op, "pr-put", arg,
                     [todo |-> rest,
                      sets |-> {sets[k] : k \in SetsOf(sets, e)},
                      next |-> PRNext(e, {sets[k] : k \in SetsOf(sets, e)}, stamp),
                      prev |-> IF e \in DOMAIN prs THEN {prs[e]} ELSE {}])]
          /\ ret' = Step(t, op, "pr-load", FALSE, e, Null)
  /\ UNCHANGED <<tables, nextId>>

\* updatePRForExercise(exerciseId), called on its own.
UpdatePRForExercise(t, exerciseId) ==
  /\ IsIdle(t)
  /\ PRLoad(t, "updatePRForExercise", exerciseId, exerciseId, <<>>)

\* The next updatePRForExercise of a recalcAllPRs loop.
RecalcNext(t) ==
  /\ calls[t].pc = "pr-load"
  /\ PRLoad(t, calls[t].op, calls[t].arg, Head(calls[t].loc.todo), Tail(calls[t].loc.todo))

\* await db.prs.put(next); return {current: next}
PRPut(t) ==
  /\ calls[t].pc = "pr-put"
  /\ ~WriteBlocked(t, "prs")
  /\ LET c == calls[t]
         next == c.loc.next
     IN /\ prs' = Put(prs, next.exerciseId, next)
        /\ calls' = [calls EXCEPT ![t] =
              IF c.loc.todo = <<>> THEN Idle
              ELSE Call(t, c.op, "pr-load", c.arg,
                        [todo |-> c.loc.todo, next |-> Null, prev |-> {}])]
        /\ ret' = Step(t, c.op, "pr-put", c.loc.todo = <<>>, next.exerciseId,
                       PRResult(next))
  /\ UNCHANGED <<exercises, workouts, sets, templates, templateItems, nextId, now>>

\* recalcAllPRs, first request: exs = await db.exercises.toArray().
RecalcLoad(t, op, arg) ==
  /\ ~ReadBlocked(t, "exercises")
  /\ LET todo == SortedSeq(DOMAIN exercises)
     IN /\ calls' = [calls EXCEPT ![t] =
              IF todo = <<>> THEN Idle
              ELSE Call(t, op, "pr-load", arg, [todo |-> todo, next |-> Null, prev |-> {}])]
        /\ ret' = Step(t, op, "recalc", todo = <<>>, arg, Null)
  /\ UNCHANGED <<tables, nextId, now>>

RecalcAllPRs(t) ==
  /\ IsIdle(t)
  /\ RecalcLoad(t, "recalcAllPRs", <<>>)

\* What a screen handler keeps while its updatePRForExercise(e) is to start.
ThenUpdatePR(e) == [todo |-> <<e>>, next |-> Null, prev |-> {}]

\* addExerciseSets of the log screen with one row of reps and weight, in the
\* workout of the day: await addSet(...), then updatePRForExercise.
AddExerciseSetsAdd(t, exerciseId, reps, weightKg) ==
  /\ IsIdle(t)
  /\ ~WriteBlocked(t, "sets")
  /\ nextId.sets <= MaxId
  /\ sets' = Put(sets, nextId.sets,
        [id |-> nextId.sets, workoutId |-> 1, exerciseId |-> exerciseId,
         setIndex |-> 1, reps |-> NumberOrNull(reps),
         weightKg |-> NumberOrNull(weightKg), durationSec |-> Null])
  /\ nextId' = [nextId EXCEPT !.sets = @ + 1]
  /\ calls' = [calls EXCEPT ![t] =
        Call(t, "addExerciseSets", "pr-load", exerciseId, ThenUpdatePR(exerciseId))]
  /\ ret' = Step(t, "addExerciseSets", "add", FALSE, exerciseId, nextId.sets)
  /\ UNCHANGED <<exercises, workouts, prs, templates, templateItems, now>>

\* handleDeleteSet of the log screen, the first request of its deleteSet(id).
HandleDeleteSetGet(t, id) ==
  /\ IsIdle(t)
  /\ ~ReadBlocked(t, "sets")
  /\ calls' = [calls EXCEPT ![t] =
        Call(t, "handleDeleteSet", "delete", id, [existing |-> TableGet(sets, id)])]
  /\ ret' = Step(t, "handleDeleteSet", "get", FALSE, id, Null)
  /\ UNCHANGED <<tables, nextId, now>>

\* handleDeleteSet: the delete of its deleteSet(id), and
\* if (exId) await updatePRForExercise(exId).
HandleDeleteSetDelete(t) ==
  /\ calls[t].op = "handleDeleteSet" /\ calls[t].pc = "delete"
  /\ ~WriteBlocked(t, "sets")
  /\ sets' = DeleteKeys(sets, {calls[t].arg})
  /\ LET exId == ExerciseIdOf(calls[t].loc.existing)
     IN /\ calls' = [calls EXCEPT ![t] =
              IF Falsy(exId) THEN Idle
              ELSE Call(t, "handleDeleteSet", "pr-load", calls[t].arg, ThenUpdatePR(exId))]
        /\ ret' = Step(t, "handleDeleteSet", "delete", Falsy(exId), calls[t].arg, exId)
  /\ UNCHANGED <<exercises, workouts, prs, templates, templateItems, nextId, now>>

\* getPR(exerciseId)
GetPR(t, exerciseId) ==
  /\ IsIdle(t)
  /\ ~ReadBlocked(t, "prs")
  /\ ret' = Step(t, "getPR", "read", TRUE, exerciseId,
                 IF exerciseId \in DOMAIN prs THEN {prs[exerciseId]} ELSE {})
  /\ UNCHANGED <<tables, nextId, now, calls>>

\* getSetsForExercise(exerciseId)
GetSetsForExercise(t, exerciseId) ==
  /\ IsIdle(t)
  /\ ~ReadBlocked(t, "sets")
  /\ ret' = Step(t, "getSetsForExercise", "read", TRUE, exerciseId,
                 {sets[k] : k \in SetsOf(sets, exerciseId)})
  /\ UNCHANGED <<tables, nextId, now, calls>>

\* ---------------------------------------------------------------- deleteExercise
\* Opening a transaction: it starts once no other open transaction holds a
\* table of its scope; it remembers what an abort restores.
CanOpen(t, scope, write) ==
  \A T \in scope : IF write THEN ~WriteBlocked(t, T) ELSE ~ReadBlocked(t, T)

TxLocals == [snap |-> Store, gen |-> nextId]

DeleteExerciseBegin(t, id) ==
  /\ IsIdle(t)
  /\ CanOpen(t, DeleteExerciseScope, TRUE)
  /\ calls' = [calls EXCEPT ![t] = [Call(t, "deleteExercise", "tx-sets", id, <<>>) EXCEPT !.tx = TxLocals]]
  /\ ret' = Step(t, "deleteExercise", "begin", FALSE, id, Null)
  /\ UNCHANGED <<tables, nextId, now>>

\* The keys db.sets.where("exerciseId").equals(id) selects for deletion;
\* before it, the selection made on the workoutId index instead.
CascadeKeysByWorkout(id) == {k \in DOMAIN sets : sets[k].workoutId = id}
CascadeKeys(id) == {k \in DOMAIN sets : sets[k].exerciseId = id}

\* await db.sets.where("exerciseId").equals(id).delete()
DeleteExerciseSets(t) ==
  /\ calls[t].op = "deleteExercise" /\ calls[t].pc = "tx-sets"
  /\ ~WriteBlocked(t, "sets")
  /\ sets' = DeleteKeys(sets, CascadeKeys(calls[t].arg))
  /\ calls' = [calls EXCEPT ![t].pc = "tx-prs"]
  /\ ret' = Step(t, "deleteExercise", "sets", FALSE, calls[t].arg, Null)
  /\ UNCHANGED <<exercises, workouts, prs, templates, templateItems, nextId, now>>

\* await db.prs.delete(id)
DeleteExercisePR(t) ==
  /\ calls[t].op = "deleteExercise" /\ calls[t].pc = "tx-prs"
  /\ ~WriteBlocked(t, "prs")
  /\ prs' = DeleteKeys(prs, {calls[t].arg})
  /\ calls' = [calls EXCEPT ![t].pc = "tx-exercises"]
  /\ ret' = Step(t, "deleteExercise", "prs", FALSE, calls[t].arg, Null)
  /\ UNCHANGED <<exercises, workouts, sets, templates, templateItems, nextId, now>>

\* await db.exercises.delete(id)
DeleteExerciseRow(t) ==
  /\ calls[t].op = "deleteExercise" /\ calls[t].pc = "tx-exercises"
  /\ ~WriteBlocked(t, "exercises")
  /\ exercises' = DeleteKeys(exercises, {calls[t].arg})
  /\ calls' = [calls EXCEPT ![t].pc = "tx-commit"]
  /\ ret' = Step(t, "deleteExercise", "exercises", FALSE, calls[t].arg, Null)
  /\ UNCHANGED <<workouts, sets, prs, templates, templateItems, nextId, now>>

\* The transaction commits and the call resolves.
DeleteExerciseCommit(t) ==
  /\ calls[t].op = "deleteExercise" /\ calls[t].pc = "tx-commit"
  /\ calls' = [calls EXCEPT ![t] = Idle]
  /\ ret' = Step(t, "deleteExercise", "commit", TRUE, calls[t].arg, Null)
  /\ UNCHANGED <<tables, nextId, now>>

\* A request of an open read-write transaction fails (or the commit does):
\* the tables of its scope go back to what they were when it opened, and the
\* call rejects.
TxAbort(t) ==
  /\ calls[t].pc \in TxPcs /\ IsWriteTx(calls[t])
  /\ LET c == calls[t]
         back(T, cur) == IF T \in ScopeOf(c) THEN c.tx.snap[T] ELSE cur
     IN /\ exercises' = back("exercises", exercises)
        /\ workouts' = back("workouts", workouts)
        /\ sets' = back("sets", sets)
        /\ prs' = back("prs", prs)
        /\ templates' = back("templates", templates)
        /\ templateItems' = back("templateItems", templateItems)
        /\ nextId' = [T \in AutoTables |->
                        IF T \in ScopeOf(c) THEN c.tx.gen[T] ELSE nextId[T]]
        /\ ret' = Step(t, c.op, "abort", TRUE, c.arg, "Error")
  /\ calls' = [calls EXCEPT ![t] = Idle]
  /\ UNCHANGED now

\* ---------------------------------------------------------------- templates
\* addTemplate(name)
AddTemplate(t, name) ==
  /\ IsIdle(t)
  /\ LET clean == Trim(name)
     IN IF clean = <<>>
        THEN /\ ret' = Step(t, "addTemplate", "validate", TRUE, clean, "Error")
             /\ UNCHANGED <<tables, nextId, now>>
        ELSE /\ ~WriteBlocked(t, "templates")
             /\ nextId.templates <= MaxId
             /\ \E stamp \in Clock :
                  /\ now' = stamp
                  /\ templates' = Put(templates, nextId.templates,
                        [id |-> nextId.templates, name |-> clean, createdAt |-> stamp])
             /\ nextId' = [nextId EXCEPT !.templates = @ + 1]
             /\ ret' = Step(t, "addTemplate", "add", TRUE, clean, nextId.templates)
             /\ UNCHANGED <<exercises, workouts, sets, prs, templateItems>>
  /\ UNCHANGED calls

\* A selection of items made on the exerciseId index.
ItemsOfExercise(exerciseId) ==
  {k \in DOMAIN templateItems : templateItems[k].exerciseId = exerciseId}

\* db.templateItems.where({templateId, exerciseId}) and
\* db.templateItems.where("templateId").equals(templateId): the keys.
ItemsOfPair(templateId, exerciseId) ==
  {k \in DOMAIN templateItems : /\ templateItems[k].templateId = templateId
                                /\ templateItems[k].exerciseId = exerciseId}
ItemsOfTemplate(templateId) ==
  {k \in DOMAIN templateItems : templateItems[k].templateId = templateId}

\* addTemplateItem, first request: an item of the pair ends the call with its id.
AddTemplateItemLookup(t, templateId, exerciseId) ==
  /\ IsIdle(t)
  /\ ~ReadBlocked(t, "templateItems")
  /\ LET found == ItemsOfPair(templateId, exerciseId)
     IN IF found # {}
        THEN /\ calls' = calls
             /\ ret' = Step(t, "addTemplateItem", "lookup", TRUE,
                            <<templateId, exerciseId>>, SetMin(found))
        ELSE /\ calls' = [calls EXCEPT ![t] =
                   Call(t, "addTemplateItem", "count", <<templateId, exerciseId>>, Null)]
             /\ ret' = Step(t, "addTemplateItem", "lookup", FALSE,
                            <<templateId, exerciseId>>, Null)
  /\ UNCHANGED <<tables, nextId, now>>

\* addTemplateItem, second request: count the template's items.
AddTemplateItemCount(t) ==
  /\ calls[t].op = "addTemplateItem" /\ calls[t].pc = "count"
  /\ ~ReadBlocked(t, "templateItems")
  /\ calls' = [calls EXCEPT ![t] =
        Call(t, "addTemplateItem", "add", calls[t].arg,
             Cardinality(ItemsOfTemplate(calls[t].arg[1])))]
  /\ ret' = Step(t, "addTemplateItem", "count", FALSE, calls[t].arg, Null)
  /\ UNCHANGED <<tables, nextId, now>>

\* addTemplateItem, third request: add the item at order = count + 1.
AddTemplateItemAdd(t) ==
  /\ calls[t].op = "addTemplateItem" /\ calls[t].pc = "add"
  /\ ~WriteBlocked(t, "templateItems")
  /\ nextId.templateItems <= MaxItems
  /\ LET id == nextId.templateItems
     IN /\ templateItems' = Put(templateItems, id,
              [id |-> id, templateId |-> calls[t].arg[1], exerciseId |-> calls[t].arg[2],
               order |-> calls[t].loc + 1, defaultReps |-> Null,
               defaultDurationSec |-> Null, defaultWeightKg |-> Null])
        /\ ret' = Step(t, "addTemplateItem", "add", TRUE, calls[t].arg, id)
  /\ nextId' = [nextId EXCEPT !.templateItems = @ + 1]
  /\ calls' = [calls EXCEPT ![t] = Idle]
  /\ UNCHANGED <<exercises, workouts, sets, prs, templates, now>>

\* deleteTemplateItem(id): db.templateItems.delete(id).
DeleteTemplateItem(t, id) ==
  /\ IsIdle(t)
  /\ ~WriteBlocked(t, "templateItems")
  /\ templateItems' = DeleteKeys(templateItems, {id})
  /\ ret' = Step(t, "deleteTemplateItem", "delete", TRUE, id, Null)
  /\ UNCHANGED <<exercises, workouts, sets, prs, templates, nextId, calls, now>>

\* deleteTemplate(id) opens its read-write transaction over templates and
\* templateItems.
DeleteTemplateBegin(t, id) ==
  /\ IsIdle(t)
  /\ CanOpen(t, DeleteTemplateScope, TRUE)
  /\ calls' = [calls EXCEPT ![t] = [Call(t, "deleteTemplate", "tx-items", id, <<>>) EXCEPT !.tx = TxLocals]]
  /\ ret' = Step(t, "deleteTemplate", "begin", FALSE, id, Null)
  /\ UNCHANGED <<tables, nextId, now>>

\* await db.templateItems.where("templateId").equals(id).delete()
DeleteTemplateItems(t) ==
  /\ calls[t].op = "deleteTemplate" /\ calls[t].pc = "tx-items"
  /\ ~WriteBlocked(t, "templateItems")
  /\ templateItems' = DeleteKeys(templateItems, ItemsOfTemplate(calls[t].arg))
  /\ calls' = [calls EXCEPT ![t].pc = "tx-template"]
  /\ ret' = Step(t, "deleteTemplate", "items", FALSE, calls[t].arg, Null)
  /\ UNCHANGED <<exercises, workouts, sets, prs, templates, nextId, now>>

\* await db.templates.delete(id)
DeleteTemplateRow(t) ==
  /\ calls[t].op = "deleteTemplate" /\ calls[t].pc = "tx-template"
  /\ ~WriteBlocked(t, "templates")
  /\ templates' = DeleteKeys(templates, {calls[t].arg})
  /\ calls' = [calls EXCEPT ![t].pc = "tx-commit"]
  /\ ret' = Step(t, "deleteTemplate", "template", FALSE, calls[t].arg, Null)
  /\ UNCHANGED <<exercises, workouts, sets, prs, templateItems, nextId, now>>

\* The transaction commits and the call resolves.
DeleteTemplateCommit(t) ==
  /\ calls[t].op = "deleteTemplate" /\ calls[t].pc = "tx-commit"
  /\ calls' = [calls EXCEPT ![t] = Idle]
  /\ ret' = Step(t, "deleteTemplate", "commit", TRUE, calls[t].arg, Null)
  /\ UNCHANGED <<tables, nextId, now>>

\* ---------------------------------------------------------------- export / import
\* The schemaVersion exportAll writes.
ExportSchemaVersion == 3

\* exportAll opens its read transaction over the six tables.
ExportAllBegin(t) ==
  /\ IsIdle(t)
  /\ CanOpen(t, ExportAllScope, FALSE)
  /\ calls' = [calls EXCEPT ![t] = Call(t, "exportAll", "tx-read", <<>>, <<>>)]
  /\ ret' = Step(t, "exportAll", "begin", FALSE, <<>>, Null)
  /\ UNCHANGED <<tables, nextId, now>>

\* The order in which Promise.all issues the six toArray() requests.
ExportOrder == <<"exercises", "workouts", "sets", "prs", "templates", "templateItems">>

\* The tables a running export has not read yet, and the tables it has read
\* together with the rows of the tables in todo as they are now.
ExportUnread(c) == {T \in TableNames : T \notin DOMAIN c.loc}
ExportReadInto(c, todo) ==
  [T \in (DOMAIN c.loc) \cup todo |-> IF T \in DOMAIN c.loc THEN c.loc[T] ELSE ToArray(Store[T])]

\* One toArray() request of exportAll completes: the next table in order.
ExportAllReadTable(t) ==
  /\ calls[t].op = "exportAll" /\ calls[t].pc = "tx-read"
  /\ ExportUnread(calls[t]) # {}
  /\ LET i == SetMin({j \in 1..Len(ExportOrder) : ExportOrder[j] \in ExportUnread(calls[t])})
     IN /\ ~ReadBlocked(t, ExportOrder[i])
        /\ calls' = [calls EXCEPT ![t].loc = ExportReadInto(calls[t], {ExportOrder[i]})]
  /\ ret' = Step(t, "exportAll", "table", FALSE, <<>>, Null)
  /\ UNCHANGED <<tables, nextId, now>>

\* The toArray() requests of exportAll that are still to complete, the six of
\* them when none has, and the envelope it returns.
ExportAllRead(t) ==
  /\ calls[t].op = "exportAll" /\ calls[t].pc = "tx-read"
  /\ \A T \in ExportUnread(calls[t]) : ~ReadBlocked(t, T)
  /\ \E stamp \in Clock :
       /\ now' = stamp
       /\ ret' = Step(t, "exportAll", "read", TRUE, <<>>,
                      [schemaVersion |-> ExportSchemaVersion, exportedAt |-> stamp,
                       tables |-> ExportReadInto(calls[t], ExportUnread(calls[t]))])
  /\ calls' = [calls EXCEPT ![t] = Idle]
  /\ UNCHANGED <<tables, nextId>>

\* A JavaScript value that is no object is written [primitive |-> its kind];
\* an object is the record of its members.
IsNullish(v) == "primitive" \in DOMAIN v /\ v.primitive \in {"null", "undefined"}

\* typeof v === "object", which null passes too.
TypeofObject(v) == "primitive" \notin DOMAIN v \/ v.primitive = "null"

\* !(!payload || typeof payload !== "object" || !payload.tables): a payload
\* importAll accepts; before it, the same test without its look at tables.
ValidPayloadAnyObject(payload) == ~IsNullish(payload) /\ TypeofObject(payload)
ValidPayload(payload) ==
  /\ ~IsNullish(payload)
  /\ TypeofObject(payload)
  /\ "tables" \in DOMAIN payload
  /\ ~IsNullish(payload.tables)

\* const {exercises = [], ...} = payload.tables; before it, the destructuring
\* of schema version 2, which knew no templates.
PayloadTableV2(payload, T) ==
  IF T \in DOMAIN payload.tables /\ T \notin {"templates", "templateItems"}
  THEN payload.tables[T] ELSE {}
PayloadTable(payload, T) ==
  IF T \in DOMAIN payload.tables THEN payload.tables[T] ELSE {}

\* importAll, up to the opening of its transaction over the six tables.
ImportAllBegin(t, payload, mode) ==
  /\ IsIdle(t)
  /\ IF ~ValidPayload(payload)
     THEN /\ calls' = calls
          /\ ret' = Step(t, "importAll", "validate", TRUE,
                         [payload |-> payload, mode |-> mode], "Error")
     ELSE /\ CanOpen(t, ImportAllScope, TRUE)
          /\ calls' = [calls EXCEPT ![t] =
                [Call(t, "importAll", "tx-clear", mode, <<>>)
                   EXCEPT !.tx = [snap |-> Store, gen |-> nextId, payload |-> payload]]]
          /\ ret' = Step(t, "importAll", "begin", FALSE,
                         [payload |-> payload, mode |-> mode], Null)
  /\ UNCHANGED <<tables, nextId, now>>

\* mode === "replace": the test that decides whether the tables are cleared;
\* before it, a test that never clears and one that always does.
ClearsNever(mode) == FALSE
ClearsAlways(mode) == TRUE
ClearsFirst(mode) == mode = "replace"

\* if (mode === "replace") clear the six tables.
ImportAllClear(t) ==
  /\ calls[t].op = "importAll" /\ calls[t].pc = "tx-clear"
  /\ LET after(cur) == IF ClearsFirst(calls[t].arg) THEN EmptyTable ELSE cur
     IN /\ exercises' = after(exercises)
        /\ workouts' = after(workouts)
        /\ sets' = after(sets)
        /\ prs' = after(prs)
        /\ templates' = after(templates)
        /\ templateItems' = after(templateItems)
  /\ calls' = [calls EXCEPT ![t].pc = "tx-put"]
  /\ ret' = Step(t, "importAll", "clear", FALSE, calls[t].arg, Null)
  /\ UNCHANGED <<nextId, now>>

\* bulkPut of the payload's rows into the six tables.
ImportAllPut(t) ==
  /\ calls[t].op = "importAll" /\ calls[t].pc = "tx-put"
  /\ LET rows(T) == PayloadTable(calls[t].tx.payload, T)
     IN /\ exercises' = BulkPut(exercises, rows("exercises"), KeyPath("exercises"))
        /\ workouts' = BulkPut(workouts, rows("workouts"), KeyPath("workouts"))
        /\ sets' = BulkPut(sets, rows("sets"), KeyPath("sets"))
        /\ prs' = BulkPut(prs, rows("prs"), KeyPath("prs"))
        /\ templates' = BulkPut(templates, rows("templates"), KeyPath("templates"))
        /\ templateItems' = BulkPut(templateItems, rows("templateItems"), KeyPath("templateItems"))
        /\ nextId' = [T \in AutoTables |-> BumpGen(nextId[T], KeysOf(rows(T), KeyPath(T)))]
  /\ calls' = [calls EXCEPT ![t].pc = "tx-commit"]
  /\ ret' = Step(t, "importAll", "put", FALSE, calls[t].arg, Null)
  /\ UNCHANGED now

\* The import transaction commits; recalcAllPRs follows.
ImportAllCommit(t) ==
  /\ calls[t].op = "importAll" /\ calls[t].pc = "tx-commit"
  /\ calls' = [calls EXCEPT ![t].pc = "recalc"]
  /\ ret' = Step(t, "importAll", "commit", FALSE, calls[t].arg, Null)
  /\ UNCHANGED <<tables, nextId, now>>

\* await recalcAllPRs() at the end of importAll.
ImportAllRecalc(t) ==
  /\ calls[t].op = "importAll" /\ calls[t].pc = "recalc"
  /\ RecalcLoad(t, "importAll", calls[t].arg)

\* A storage request of the PR recompute fails (a read, or the put of a PR
\* row): the call rejects. No transaction is open, so what was written before
\* stays written.
RecalcFail(t) ==
  /\ calls[t].pc \in {"recalc", "pr-load", "pr-put"}
  /\ ret' = Step(t, calls[t].op, "fail", TRUE, calls[t].arg, "Error")
  /\ calls' = [calls EXCEPT ![t] = Idle]
  /\ UNCHANGED <<tables, nextId, now>>

\* ---------------------------------------------------------------- inputs
BenchPress == <<"B","e","n","c","h">>
Blank == <<" ">>

\* The cascade of the open deleteExercise of task t: what it has removed so
\* far of the exercise's sets, PR row and exercise row, against what was there
\* when its transaction opened.
CascadeLeft(t) ==
  LET e == calls[t].arg
      snap == calls[t].tx.snap
  IN [sets |-> {k \in DOMAIN snap.sets : snap.sets[k].exerciseId = e} \cap DOMAIN sets,
      prs |-> {e} \cap DOMAIN snap.prs \cap DOMAIN prs,
      exercises |-> {e} \cap DOMAIN snap.exercises \cap DOMAIN exercises]

CascadeAll(t) ==
  LET e == calls[t].arg
      snap == calls[t].tx.snap
  IN [sets |-> {k \in DOMAIN snap.sets : snap.sets[k].exerciseId = e},
      prs |-> {e} \cap DOMAIN snap.prs,
      exercises |-> {e} \cap DOMAIN snap.exercises]

NothingLeft == [sets |-> {}, prs |-> {}, exercises |-> {}]

\* Some but not all of an exercise's sets, PR row and exercise row are removed.
PartialCascade ==
  \E t \in Tasks :
    /\ calls[t].op = "deleteExercise"
    /\ CascadeLeft(t) # CascadeAll(t)
    /\ CascadeLeft(t) # NothingLeft

\* ---------------------------------------------------------------- workout calls
\* A backup file holding one workout.
WorkoutPayloads ==
  {[tables |-> [workouts |-> {[id |-> k, dateISO |-> d, notes |-> ""]}]] :
     k \in Ids, d \in {DayA, DayB}}

ImportModes == {"replace", "merge"}

\* createWorkout calls, interleaved at their awaits, and imports of workouts.
NextWorkouts ==
  \E t \in Tasks :
    \/ \E d \in DateInputs, n \in NoteInputs : CreateWorkoutLookup(t, d, n)
    \/ CreateWorkoutAdd(t)
    \/ \E p \in WorkoutPayloads, m \in ImportModes : ImportAllBegin(t, p, m)
    \/ ImportAllClear(t)
    \/ ImportAllPut(t)
    \/ ImportAllCommit(t)
    \/ ImportAllRecalc(t)
    \/ TxAbort(t)

SpecWorkouts == Init /\ [][NextWorkouts]_vars

\* C1: the workouts table holds at most one row per dateISO.
OneWorkoutPerDate ==
  \A j \in DOMAIN workouts, k \in DOMAIN workouts :
    workouts[j].dateISO = workouts[k].dateISO => j = k

\* C2: a createWorkout(d) that follows a completed createWorkout(d) at once
\* returns the same id, writes nothing, and leaves exactly one row for d.
CreateWorkoutTwice ==
  [][(/\ ret.op = "createWorkout" /\ ret.done
      /\ ret'.op = "createWorkout" /\ ret'.step = "lookup"
      /\ ret'.arg = ret.arg)
     => (/\ ret'.done
         /\ ret'.val = ret.val
         /\ workouts' = workouts
         /\ Cardinality({k \in DOMAIN workouts' : workouts'[k].dateISO = ret.arg}) = 1)]_vars

\* ---------------------------------------------------------------- cascade calls
\* Exercises with sets and PR rows, deleteExercise, and the calls that read
\* what it deletes.
NextCascade ==
  \E t \in Tasks :
    \/ AddExercise(t, BenchPress, "weighted", FALSE)
    \/ \E e \in DOMAIN exercises : AddSet(t, 1, e, 1, 5, 100, Null)
    \/ \E e \in DOMAIN exercises : UpdatePRForExercise(t, e)
    \/ PRPut(t)
    \/ \E e \in DOMAIN exercises : DeleteExerciseBegin(t, e)
    \/ DeleteExerciseSets(t)
    \/ DeleteExercisePR(t)
    \/ DeleteExerciseRow(t)
    \/ DeleteExerciseCommit(t)
    \/ TxAbort(t)
    \/ \E e \in DOMAIN exercises : GetSetsForExercise(t, e)
    \/ \E e \in DOMAIN exercises : GetPR(t, e)
    \/ ExportAllBegin(t)
    \/ ExportAllRead(t)

SpecCascade == Init /\ [][NextCascade]_vars

\* C3: when deleteExercise(e) completes, no set and no PR row has exerciseId e,
\* the exercise row e is gone, and the rows of other exercises are as they were.
DeleteExerciseCascades ==
  [][(ret'.op = "deleteExercise" /\ ret'.step = "commit")
     => LET e == ret'.arg
            snap == calls[ret'.task].tx.snap
        IN /\ \A k \in DOMAIN sets' : sets'[k].exerciseId # e
           /\ e \notin DOMAIN prs'
           /\ e \notin DOMAIN exercises'
           /\ \A k \in DOMAIN snap.sets :
                 snap.sets[k].exerciseId # e => k \in DOMAIN sets' /\ sets'[k] = snap.sets[k]
           /\ \A k \in DOMAIN sets' : k \in DOMAIN snap.sets
           /\ \A k \in DOMAIN snap.prs \ {e} : k \in DOMAIN prs' /\ prs'[k] = snap.prs[k]
           /\ DOMAIN prs' \subseteq DOMAIN snap.prs
           /\ \A k \in DOMAIN snap.exercises \ {e} :
                 k \in DOMAIN exercises' /\ exercises'[k] = snap.exercises[k]
           /\ DOMAIN exercises' \subseteq DOMAIN snap.exercises]_vars

\* A deleteExercise about to commit that removed a set and a PR row of its
\* exercise while another exercise keeps a set.
DeleteExerciseCascadesWitness ==
  \E t \in Tasks :
    /\ calls[t].op = "deleteExercise" /\ calls[t].pc = "tx-commit"
    /\ CascadeAll(t).sets # {} /\ CascadeAll(t).prs # {} /\ CascadeAll(t).exercises # {}
    /\ CascadeLeft(t) = NothingLeft
    /\ sets # EmptyTable

\* C4: no read of another call sees a deleteExercise cascade half done, and
\* an aborted deleteExercise removes nothing.
DeleteExerciseAtomic ==
  [][/\ (/\ ret'.op \in {"exportAll", "getSetsForExercise", "getPR", "updatePRForExercise"}
         /\ ret'.step \in {"read", "pr-load"})
        => ~PartialCascade
     /\ (ret'.op = "deleteExercise" /\ ret'.step = "abort")
        => LET snap == calls[ret'.task].tx.snap
           IN sets' = snap.sets /\ prs' = snap.prs /\ exercises' = snap.exercises]_vars

\* A deleteExercise that has removed the sets of its exercise and not yet its
\* PR row and exercise row.
DeleteExerciseAtomicWitness ==
  /\ PartialCascade
  /\ \E t \in Tasks : calls[t].op = "deleteExercise" /\ calls[t].pc = "tx-prs"
                       /\ CascadeAll(t).prs # {}

\* ---------------------------------------------------------------- template references
\* Exercises put into templates, and deleteExercise.
NextTemplateRefs ==
  \E t \in Tasks :
    \/ AddExercise(t, BenchPress, "weighted", FALSE)
    \/ AddTemplate(t, BenchPress)
    \/ \E tpl \in DOMAIN templates, e \in DOMAIN exercises : AddTemplateItemLookup(t, tpl, e)
    \/ AddTemplateItemCount(t)
    \/ AddTemplateItemAdd(t)
    \/ \E e \in DOMAIN exercises : DeleteExerciseBegin(t, e)
    \/ DeleteExerciseSets(t)
    \/ DeleteExercisePR(t)
    \/ DeleteExerciseRow(t)
    \/ DeleteExerciseCommit(t)
    \/ TxAbort(t)

SpecTemplateRefs == Init /\ [][NextTemplateRefs]_vars

\* C5: when deleteExercise(e) completes, no templateItems row has exerciseId e.
DeleteExerciseClearsTemplateItems ==
  (ret.op = "deleteExercise" /\ ret.step = "commit")
    => \A k \in DOMAIN templateItems : templateItems[k].exerciseId # ret.arg

\* ---------------------------------------------------------------- timed conversion
\* Exercises that gain sets, and updateExerciseTimed.
NextTimed ==
  \E t \in Tasks :
    \/ AddExercise(t, BenchPress, "bodyweight", FALSE)
    \/ \E e \in DOMAIN exercises : AddSet(t, 1, e, 1, 5, Null, Null)
    \/ \E e \in DOMAIN exercises, v \in BOOLEAN : UpdateExerciseTimedCount(t, e, v)
    \/ UpdateExerciseTimedUpdate(t)

SpecTimed == Init /\ [][NextTimed]_vars

\* C10: updateExerciseTimed(id, v) rejects and leaves the exercise row as it
\* is when the exercise has a set; with no set it goes on to its update, which
\* succeeds and makes the exercise's isTimed v, changing nothing else.
TimedConversionGuard ==
  [][/\ (ret'.op = "updateExerciseTimed" /\ ret'.step = "count")
        => IF \E k \in DOMAIN sets : sets[k].exerciseId = ret'.arg
           THEN ret'.done /\ ret'.val = "Error" /\ exercises' = exercises
           ELSE ~ret'.done /\ calls'[ret'.task].pc = "update"
     /\ (ret'.op = "updateExerciseTimed" /\ ret'.step = "update")
        => LET id == ret'.arg
               v == calls[ret'.task].loc
           IN /\ ret'.done /\ ret'.val \in {0, 1}
              /\ DOMAIN exercises' = DOMAIN exercises
              /\ \A k \in DOMAIN exercises :
                    exercises'[k] = IF k = id THEN [exercises[k] EXCEPT !.isTimed = v]
                                    ELSE exercises[k]]_vars

\* An updateExerciseTimed rejected for an exercise that has a set.
TimedConversionGuardWitness ==
  /\ ret.op = "updateExerciseTimed" /\ ret.step = "count" /\ ret.done
  /\ ret.arg \in DOMAIN exercises
  /\ \E k \in DOMAIN sets : sets[k].exerciseId = ret.arg

\* ---------------------------------------------------------------- personal records
\* The sets the log screens add: reps and weight, or a duration.
SetInputs ==
  {[reps |-> 5, weightKg |-> 100, durationSec |-> Null],
   [reps |-> 3, weightKg |-> 110, durationSec |-> Null],
   [reps |-> Null, weightKg |-> Null, durationSec |-> 60]}

\* The patch of an edit that sets the reps of a set to 0.
PatchInputs == {[reps |-> 0]}

\* One exercise whose sets are added, edited and deleted while its PR row is
\* recomputed.
NextPR ==
  \E t \in Tasks :
    \/ /\ exercises = EmptyTable
       /\ AddExercise(t, BenchPress, "weighted", FALSE)
    \/ \E e \in DOMAIN exercises, in \in SetInputs :
         AddSet(t, 1, e, 1, in.reps, in.weightKg, in.durationSec)
    \/ \E k \in DOMAIN sets, patch \in PatchInputs : UpdateSetGet(t, k, patch)
    \/ UpdateSetUpdate(t)
    \/ \E k \in DOMAIN sets : DeleteSetGet(t, k)
    \/ DeleteSetDelete(t)
    \/ \E e \in DOMAIN exercises : UpdatePRForExercise(t, e)
    \/ PRPut(t)

SpecPR == Init /\ [][NextPR]_vars

\* The metrics of a PR row and the set field each is the best of.
Metrics == {"bestWeight", "bestReps", "bestDurationSec", "best1RM"}

\* round(w * (1 + r/30)): the integer nearest to w * (30 + r) / 30, a half
\* going up.
Nearest1RM(w, r) ==
  CHOOSE n \in 0..(2 * w) : 60 * n - 30 <= 2 * w * (30 + r) /\ 2 * w * (30 + r) < 60 * n + 30

\* The values the rows contribute to a metric: those greater than 0, and for
\* best1RM the estimate of each row that has both a weight and reps.
Contributions(rows, m) ==
  CASE m = "bestWeight" -> {s.weightKg : s \in {x \in rows : x.weightKg > 0}}
    [] m = "bestReps" -> {s.reps : s \in {x \in rows : x.reps > 0}}
    [] m = "bestDurationSec" -> {s.durationSec : s \in {x \in rows : x.durationSec > 0}}
    [] m = "best1RM" -> {Nearest1RM(s.weightKg, s.reps) :
                           s \in {x \in rows : x.weightKg > 0 /\ x.reps > 0}}

\* The best of a metric over rows, null when no row contributes.
BestOver(rows, m) ==
  LET vals == Contributions(rows, m)
  IN IF vals = {} THEN Null ELSE CHOOSE v \in vals : \A u \in vals : u <= v

\* C6: when updatePRForExercise(e) completes with the sets of e as it loaded
\* them, the stored PR row of e holds for each metric the maximum over e's
\* sets, null when no set contributes a value above 0.
PRRowHoldsMaxima ==
  [][(ret'.step = "pr-put" /\ ret'.op = "updatePRForExercise")
       => LET e == ret'.arg
              current == {sets'[k] : k \in {i \in DOMAIN sets' : sets'[i].exerciseId = e}}
          IN current = calls[ret'.task].loc.sets
               => /\ e \in DOMAIN prs'
                  /\ \A m \in Metrics : prs'[e][m] = BestOver(current, m)]_vars

\* The spec's example: sets {5 reps, 100 kg} and {3 reps, 110 kg} give best
\* weight 110, best reps 5, best 1RM 121 and no best duration.
PRRowHoldsMaximaWitness ==
  /\ ret.step = "pr-put" /\ ret.op = "updatePRForExercise" /\ ret.arg \in DOMAIN prs
  /\ {[reps |-> sets[k].reps, weightKg |-> sets[k].weightKg] : k \in DOMAIN sets}
       = {[reps |-> 5, weightKg |-> 100], [reps |-> 3, weightKg |-> 110]}
  /\ prs[ret.arg].bestWeight = 110 /\ prs[ret.arg].bestReps = 5
  /\ prs[ret.arg].best1RM = 121 /\ prs[ret.arg].bestDurationSec = Null

\* C7: updatePRForExercise returns an improvements map holding metric m
\* exactly when m's new value is above the previous row's (null as 0), with
\* old the previous value, or null when there was no previous row.
ImprovementsReported ==
  [][(ret'.step = "pr-put" /\ ret'.op = "updatePRForExercise")
       => LET res == ret'.val
              next == calls[ret'.task].loc.next
              prev == calls[ret'.task].loc.prev
              Old(m) == IF prev = {} THEN Null ELSE (CHOOSE p \in prev : TRUE)[m]
          IN /\ "improvements" \in DOMAIN res
             /\ \A m \in Metrics :
                   /\ m \in DOMAIN res.improvements <=> OrZero(next[m]) > OrZero(Old(m))
                   /\ m \in DOMAIN res.improvements
                        => res.improvements[m] = [old |-> Old(m), new |-> next[m]]]_vars

\* C8: a repeated updatePRForExercise, the row already holding the maxima of
\* the exercise's sets, leaves the four metrics of the row as they are and
\* returns an empty improvements map.
RepeatedUpdateChangesNothing ==
  [][(/\ ret'.step = "pr-put" /\ ret'.op = "updatePRForExercise"
      /\ ret'.arg \in DOMAIN prs
      /\ LET e == ret'.arg
             mine == {sets[k] : k \in {i \in DOMAIN sets : sets[i].exerciseId = e}}
         IN /\ calls[ret'.task].loc.prev = {prs[e]}
            /\ calls[ret'.task].loc.sets = mine
            /\ \A m \in Metrics : prs[e][m] = BestOver(mine, m))
       => /\ \A m \in Metrics : prs'[ret'.arg][m] = prs[ret'.arg][m]
          /\ "improvements" \in DOMAIN ret'.val
          /\ DOMAIN ret'.val.improvements = {}]_vars

\* ---------------------------------------------------------------- backup round trip
\* One caller fills the store, exports it, and imports the export in replace
\* mode, each call running to its end before the next.
NextBackup ==
  LET t == SetMin(Tasks)
  IN \/ AddExercise(t, BenchPress, "weighted", FALSE)
     \/ \E e \in DOMAIN exercises : AddSet(t, 1, e, 1, 5, 100, Null)
     \/ \E e \in DOMAIN exercises : UpdatePRForExercise(t, e)
     \/ RecalcNext(t)
     \/ PRPut(t)
     \/ CreateWorkoutLookup(t, DayA, "")
     \/ CreateWorkoutAdd(t)
     \/ AddTemplate(t, BenchPress)
     \/ \E tpl \in DOMAIN templates, e \in DOMAIN exercises : AddTemplateItemLookup(t, tpl, e)
     \/ AddTemplateItemCount(t)
     \/ AddTemplateItemAdd(t)
     \/ ExportAllBegin(t)
     \/ ExportAllRead(t)
     \/ /\ ret.op = "exportAll" /\ ret.done
        /\ ImportAllBegin(t, ret.val, "replace")
     \/ ImportAllClear(t)
     \/ ImportAllPut(t)
     \/ ImportAllCommit(t)
     \/ ImportAllRecalc(t)
     \/ Tick

SpecBackup == Init /\ [][NextBackup]_vars

\* The step that ends an importAll which got past its validation.
ImportAllEnds == ret'.op = "importAll" /\ ret'.done /\ ret'.step \in {"recalc", "pr-load", "pr-put"}

\* The ending importAll ran in replace mode on an export of the store as it
\* was when the import began.
ImportOfOwnExport ==
  LET c == calls[ret'.task]
  IN /\ c.arg = "replace"
     /\ \A T \in TableNames :
          c.tx.payload.tables[T] = {c.tx.snap[T][k] : k \in DOMAIN c.tx.snap[T]}

\* C9 as stated: importAll(exportAll(), {mode: 'replace'}) leaves every
\* table, prs included, equal row for row to its state before the export.
RoundTripRestoresEveryTable ==
  [][(ImportAllEnds /\ ImportOfOwnExport)
       => LET before == calls[ret'.task].tx.snap
          IN /\ exercises' = before.exercises
             /\ workouts' = before.workouts
             /\ sets' = before.sets
             /\ prs' = before.prs
             /\ templates' = before.templates
             /\ templateItems' = before.templateItems]_vars

\* C9, amended: importAll(exportAll(), {mode: 'replace'}) leaves exercises,
\* workouts, sets, templates and templateItems equal row for row and field
\* for field to their state before the export; prs keeps a row for every
\* exerciseId it had and has one for every exercise, and the row of each
\* exercise holds the maxima recomputed from that exercise's sets.
RoundTripRestoresData ==
  [][(ImportAllEnds /\ ImportOfOwnExport)
       => LET before == calls[ret'.task].tx.snap
          IN /\ exercises' = before.exercises
             /\ workouts' = before.workouts
             /\ sets' = before.sets
             /\ templates' = before.templates
             /\ templateItems' = before.templateItems
             /\ DOMAIN prs' = (DOMAIN before.prs) \cup (DOMAIN before.exercises)
             /\ \A e \in DOMAIN before.exercises : \A m \in Metrics :
                   prs'[e][m] = BestOver({before.sets[k] :
                                   k \in {i \in DOMAIN before.sets :
                                            before.sets[i].exerciseId = e}}, m)]_vars

\* A finished round trip of a store with rows in all six tables.
RoundTripRestoresDataWitness ==
  /\ ret.op = "importAll" /\ ret.done /\ ret.step = "pr-put"
  /\ \A T \in TableNames : Store[T] # EmptyTable

\* ---------------------------------------------------------------- template items
\* addTemplateItem calls, interleaved at their awaits; the helper looks at
\* neither the template nor the exercise, so any ids will do.
NextTemplateItems ==
  \E t \in Tasks :
    \/ \E tpl \in Ids, e \in Ids : AddTemplateItemLookup(t, tpl, e)
    \/ AddTemplateItemCount(t)
    \/ AddTemplateItemAdd(t)

SpecTemplateItems == Init /\ [][NextTemplateItems]_vars

\* C11: an addTemplateItem(t, e) that follows a completed addTemplateItem(t, e)
\* at once returns the same id, changes no row, and leaves exactly one row for
\* the pair.
AddTemplateItemTwice ==
  [][(/\ ret.op = "addTemplateItem" /\ ret.done
      /\ ret'.op = "addTemplateItem" /\ ret'.step = "lookup"
      /\ ret'.arg = ret.arg)
     => (/\ ret'.done
         /\ ret'.val = ret.val
         /\ templateItems' = templateItems
         /\ Cardinality({k \in DOMAIN templateItems' :
                           /\ templateItems'[k].templateId = ret.arg[1]
                           /\ templateItems'[k].exerciseId = ret.arg[2]}) = 1)]_vars

\* C12: the templateItems table holds at most one row per (templateId,
\* exerciseId) pair.
OneItemPerPair ==
  \A j \in DOMAIN templateItems, k \in DOMAIN templateItems :
    (/\ templateItems[j].templateId = templateItems[k].templateId
     /\ templateItems[j].exerciseId = templateItems[k].exerciseId) => j = k

\* ---------------------------------------------------------------- imports
\* A backup of a store with one exercise, its set, a PR row that is out of
\* date, a workout, a template and its item.
FullBackup ==
  [tables |->
    [exercises |-> {[id |-> 1, name |-> BenchPress, type |-> "weighted",
                     isTimed |-> FALSE, createdAt |-> 0]},
     workouts |-> {[id |-> 1, dateISO |-> DayA, notes |-> ""]},
     sets |-> {[id |-> 1, workoutId |-> 1, exerciseId |-> 1, setIndex |-> 1,
                reps |-> 5, weightKg |-> 100, durationSec |-> Null]},
     prs |-> {[exerciseId |-> 1, bestWeight |-> 110, bestReps |-> 5,
               bestDurationSec |-> Null, best1RM |-> 121, updatedAt |-> 0]},
     templates |-> {[id |-> 1, name |-> BenchPress, createdAt |-> 0]},
     templateItems |-> {[id |-> 1, templateId |-> 1, exerciseId |-> 1, order |-> 1,
                         defaultReps |-> Null, defaultDurationSec |-> Null,
                         defaultWeightKg |-> Null]}]]

\* A backup that holds sets and a PR row only: set 1 edited, a set and a PR
\* row of an exercise 2 whose exercise row is not in the file.
PartialBackup ==
  [tables |->
    [sets |-> {[id |-> 1, workoutId |-> 1, exerciseId |-> 1, setIndex |-> 1,
                reps |-> 3, weightKg |-> 110, durationSec |-> Null],
               [id |-> 2, workoutId |-> 1, exerciseId |-> 2, setIndex |-> 1,
                reps |-> 5, weightKg |-> 100, durationSec |-> Null]},
     prs |-> {[exerciseId |-> 2, bestWeight |-> 110, bestReps |-> 5,
               bestDurationSec |-> Null, best1RM |-> 121, updatedAt |-> 0]}]]

\* What importAll can be handed: the two backups, a file without tables, a
\* file whose tables member is null, and values that are no objects.
ImportPayloads ==
  {FullBackup, PartialBackup,
   [schemaVersion |-> ExportSchemaVersion],
   [schemaVersion |-> ExportSchemaVersion, tables |-> [primitive |-> "null"]],
   [primitive |-> "null"], [primitive |-> "string"]}

KnownModes == {"replace", "merge"}
ModeInputs == KnownModes \cup {"append"}

\* importAll calls, interleaved at their awaits.
NextImport ==
  \E t \in Tasks :
    \/ \E p \in ImportPayloads, m \in ModeInputs : ImportAllBegin(t, p, m)
    \/ ImportAllClear(t)
    \/ ImportAllPut(t)
    \/ ImportAllCommit(t)
    \/ ImportAllRecalc(t)
    \/ RecalcNext(t)
    \/ PRPut(t)
    \/ TxAbort(t)

SpecImport == Init /\ [][NextImport]_vars

\* The tables importAll installs rows in besides prs.
DataTables == TableNames \ {"prs"}

\* The store after the step.
StoreAfter == [exercises |-> exercises', workouts |-> workouts', sets |-> sets',
               prs |-> prs', templates |-> templates', templateItems |-> templateItems']

\* The rows a payload holds for a table: none when the table is absent.
RowsFor(payload, T) == IF T \in DOMAIN payload.tables THEN payload.tables[T] ELSE {}

\* C13: importAll with a mode other than 'replace' or 'merge' is rejected
\* with an error and changes no table.
UnknownModeRejected ==
  [][(/\ ret'.op = "importAll" /\ ret'.step \in {"validate", "begin"}
      /\ ret'.arg.mode \notin KnownModes)
       => /\ ret'.done
          /\ ret'.val = "Error"
          /\ calls' = calls
          /\ StoreAfter = Store]_vars

\* C14: importAll with a payload that is no object or has no tables member
\* is rejected at once, whatever the mode: the call ends with an error, opens
\* no transaction and changes no table.
InvalidPayloadRejected ==
  [][(/\ ret'.op = "importAll" /\ ret'.step \in {"validate", "begin"}
      /\ \/ "primitive" \in DOMAIN ret'.arg.payload
         \/ "tables" \notin DOMAIN ret'.arg.payload)
       => /\ ret'.done
          /\ ret'.val = "Error"
          /\ calls' = calls
          /\ StoreAfter = Store]_vars

\* A file without tables rejected on a store that holds rows.
InvalidPayloadRejectedWitness ==
  /\ ret.op = "importAll" /\ ret.step = "validate" /\ ret.done
  /\ "primitive" \notin DOMAIN ret.arg.payload
  /\ "tables" \notin DOMAIN ret.arg.payload
  /\ sets # EmptyTable /\ exercises # EmptyTable

\* C15: when the transaction of importAll(payload, {mode: 'replace'})
\* commits, each of exercises, workouts, sets, templates and templateItems
\* holds exactly the rows of the payload for that table, each under its own
\* id, and is empty when the payload has no such table.
ReplaceInstallsPayload ==
  [][(/\ ret'.op = "importAll" /\ ret'.step = "commit"
      /\ calls[ret'.task].arg = "replace")
       => \A T \in DataTables :
            /\ {StoreAfter[T][k] : k \in DOMAIN StoreAfter[T]}
                 = RowsFor(calls[ret'.task].tx.payload, T)
            /\ \A k \in DOMAIN StoreAfter[T] : StoreAfter[T][k].id = k]_vars

\* A replace import of the partial backup about to commit on a store that
\* held the full backup: the set it edits is replaced, the tables it lacks
\* are empty.
ReplaceInstallsPayloadWitness ==
  \E t \in Tasks :
    /\ calls[t].op = "importAll" /\ calls[t].pc = "tx-commit" /\ calls[t].arg = "replace"
    /\ calls[t].tx.payload = PartialBackup
    /\ calls[t].tx.snap.exercises # EmptyTable /\ calls[t].tx.snap.sets # EmptyTable
    /\ exercises = EmptyTable /\ DOMAIN sets = {1, 2}

\* C16: when the transaction of importAll(payload, {mode: 'merge'}) commits,
\* every row of exercises, workouts, sets, templates and templateItems whose
\* id is not in the payload for its table is as it was, and every payload row
\* is in its table under its id.
MergeUpsertsPayload ==
  [][(/\ ret'.op = "importAll" /\ ret'.step = "commit"
      /\ calls[ret'.task].arg = "merge")
       => LET before == calls[ret'.task].tx.snap
              payload == calls[ret'.task].tx.payload
          IN \A T \in DataTables :
               LET ids == {r.id : r \in RowsFor(payload, T)}
               IN /\ DOMAIN StoreAfter[T] = (DOMAIN before[T]) \cup ids
                  /\ \A k \in (DOMAIN before[T]) \ ids : StoreAfter[T][k] = before[T][k]
                  /\ \A r \in RowsFor(payload, T) : StoreAfter[T][r.id] = r]_vars

\* A merge import of the partial backup about to commit on a store that held
\* the full backup: set 1 is overwritten, set 2 is new, the exercise stays.
MergeUpsertsPayloadWitness ==
  \E t \in Tasks :
    /\ calls[t].op = "importAll" /\ calls[t].pc = "tx-commit" /\ calls[t].arg = "merge"
    /\ calls[t].tx.payload = PartialBackup
    /\ 1 \in DOMAIN calls[t].tx.snap.sets /\ calls[t].tx.snap.sets[1].weightKg = 100
    /\ DOMAIN sets = {1, 2} /\ sets[1].weightKg = 110
    /\ exercises = calls[t].tx.snap.exercises /\ exercises # EmptyTable

\* C17: when importAll ends, every row of prs holds the maxima of the sets
\* now in the store for its exerciseId.
ImportRecomputesEveryPR ==
  [][ImportAllEnds
       => \A e \in DOMAIN prs' : \A m \in Metrics :
            prs'[e][m] = BestOver({sets'[k] : k \in {i \in DOMAIN sets' :
                                                     sets'[i].exerciseId = e}}, m)]_vars

\* ---------------------------------------------------------------- set log
\* The required fields of the calls of addSet: complete, for a second
\* exercise, and with one of the three missing or 0.
AddSetInputs ==
  {AddSetArg(1, 1, 1), AddSetArg(1, 2, 1),
   AddSetArg(Null, 1, 1), AddSetArg(1, 0, 1), AddSetArg(1, 1, 0)}

\* The patches of updateSet: an edit of the reps, a patch that names another
\* exercise, and a patch with a key no set has.
SetPatchInputs == {[reps |-> 0], [exerciseId |-> 2], [note |-> Str]}

\* The fields updateSet is to change.
PatchableFields == {"reps", "weightKg", "durationSec", "setIndex"}

\* Sets are added, edited and deleted by id, the id of a set that is not in
\* the store included.
NextSets ==
  \E t \in Tasks :
    \/ \E a \in AddSetInputs :
         AddSet(t, a.workoutId, a.exerciseId, a.setIndex, 5, 100, Null)
    \/ \E id \in Ids, patch \in SetPatchInputs : UpdateSetGet(t, id, patch)
    \/ UpdateSetUpdate(t)
    \/ \E id \in Ids : DeleteSetGet(t, id)
    \/ DeleteSetDelete(t)

SpecSets == Init /\ [][NextSets]_vars

\* C18: updateSet(id, patch) changes nothing but reps, weightKg, durationSec
\* and setIndex of set id: its id, workoutId, exerciseId and every other key
\* are as before, no key is added, and every other set is as before.
UpdateSetChangesOnlyListedFields ==
  [][(ret'.op = "updateSet" /\ ret'.step = "update") =>
       LET id == ret'.arg
       IN /\ DOMAIN sets' = DOMAIN sets
          /\ \A k \in DOMAIN sets \ {id} : sets'[k] = sets[k]
          /\ id \in DOMAIN sets =>
               /\ DOMAIN sets'[id] = DOMAIN sets[id]
               /\ \A f \in DOMAIN sets[id] \ PatchableFields : sets'[id][f] = sets[id][f]]_vars

\* C19: updateSet and deleteSet return the exerciseId of the row the call
\* read when it started, and null when it read none; a call for an id no set
\* has ends without an error and changes no table.
SetCallReturnsExerciseId ==
  [][(ret'.op \in {"updateSet", "deleteSet"} /\ ret'.done) =>
       LET id == ret'.arg
           existing == calls[ret'.task].loc.existing
       IN /\ \A row \in existing : ret'.val = row.exerciseId
          /\ existing = {} => ret'.val = Null
          /\ id \notin DOMAIN sets => tables' = tables /\ nextId' = nextId]_vars

\* A second deleteSet of an id has returned null: the set was added, is gone,
\* and another set is still in the store.
SetCallReturnsExerciseIdWitness ==
  /\ ret.op = "deleteSet" /\ ret.done
  /\ ret.arg < nextId.sets /\ ret.arg \notin DOMAIN sets
  /\ ret.val = Null
  /\ sets # EmptyTable

\* C20: addSet with workoutId, exerciseId or setIndex missing or 0 ends with
\* an error and adds no row; any other call adds exactly one row, leaves every
\* other row as it was, and returns the id of the new row, an id no set had.
AddSetValidatesThenAdds ==
  [][ret'.op = "addSet" =>
       LET a == ret'.arg
       IN IF \E f \in DOMAIN a : a[f] \in {Null, 0}
          THEN /\ ret'.step = "validate"
               /\ ret'.val = "Error"
               /\ tables' = tables
          ELSE /\ ret'.step = "add"
               /\ ret'.val \notin DOMAIN sets
               /\ DOMAIN sets' = DOMAIN sets \cup {ret'.val}
               /\ \A k \in DOMAIN sets : sets'[k] = sets[k]
               /\ sets'[ret'.val].id = ret'.val
               /\ \A f \in DOMAIN a : sets'[ret'.val][f] = a[f]]_vars

\* addSet has added a row next to an earlier one and returned its id.
AddSetValidatesThenAddsWitness ==
  /\ ret.op = "addSet" /\ ret.step = "add"
  /\ ret.val \in DOMAIN sets
  /\ DOMAIN sets \ {ret.val} # {}

\* ---------------------------------------------------------------- export snapshot
\* A backup is restored, its exercise and its template are deleted, and the
\* store is exported, the requests of the calls interleaved.
NextSnapshot ==
  \E t \in Tasks :
    \/ \E p \in {FullBackup, PartialBackup} : ImportAllBegin(t, p, "replace")
    \/ ImportAllClear(t)
    \/ ImportAllPut(t)
    \/ ImportAllCommit(t)
    \/ ImportAllRecalc(t)
    \/ RecalcNext(t)
    \/ PRPut(t)
    \/ \E e \in DOMAIN exercises : DeleteExerciseBegin(t, e)
    \/ DeleteExerciseSets(t)
    \/ DeleteExercisePR(t)
    \/ DeleteExerciseRow(t)
    \/ DeleteExerciseCommit(t)
    \/ \E tpl \in DOMAIN templates : DeleteTemplateBegin(t, tpl)
    \/ DeleteTemplateItems(t)
    \/ DeleteTemplateRow(t)
    \/ DeleteTemplateCommit(t)
    \/ TxAbort(t)
    \/ ExportAllBegin(t)
    \/ ExportAllReadTable(t)
    \/ ExportAllRead(t)

SpecSnapshot == Init /\ [][NextSnapshot]_vars

\* A read-write transaction of a call is open: some of its writes may be in
\* the store and others not yet.
WriteTxOpen(u) == calls[u].pc \in TxPcs /\ IsWriteTx(calls[u])

\* C21: the six tables exportAll returns are the six tables of the store at
\* one instant, the instant it returns, and at that instant no transaction of
\* deleteExercise, deleteTemplate or importAll is open: the export holds all
\* the writes of each such transaction or none of them.
ExportIsSnapshot ==
  [][(ret'.op = "exportAll" /\ ret'.step = "read") =>
       /\ \A T \in TableNames : ret'.val.tables[T] = ToArray(Store[T])
       /\ \A u \in Tasks : ~WriteTxOpen(u)]_vars

\* An export has returned rows while the importAll of another caller is
\* between its transaction and the end of its PR recompute.
ExportIsSnapshotWitness ==
  /\ ret.op = "exportAll" /\ ret.step = "read"
  /\ ret.val.tables.sets # {}
  /\ \E u \in Tasks : calls[u].op = "importAll"

\* ---------------------------------------------------------------- PR rows and deleted exercises
\* An exercise gets sets, its PR row is recomputed and the exercise is
\* deleted; the recompute is also asked for ids that have no exercise.
NextPROwner ==
  \E t \in Tasks :
    \/ AddExercise(t, BenchPress, "weighted", FALSE)
    \/ \E e \in DOMAIN exercises : AddSet(t, 1, e, 1, 5, 100, Null)
    \/ \E e \in Ids : UpdatePRForExercise(t, e)
    \/ PRPut(t)
    \/ \E e \in DOMAIN exercises : DeleteExerciseBegin(t, e)
    \/ DeleteExerciseSets(t)
    \/ DeleteExercisePR(t)
    \/ DeleteExerciseRow(t)
    \/ DeleteExerciseCommit(t)

SpecPROwner == Init /\ [][NextPROwner]_vars

\* C22: updatePRForExercise(e) that finds no exercise e when it loads ends
\* there: it resolves to null, no table is written and no write follows.
UpdatePRSkipsMissingExercise ==
  [][(/\ ret'.op = "updatePRForExercise" /\ ret'.step = "pr-load"
      /\ ret'.arg \notin DOMAIN exercises) =>
       /\ ret'.done
       /\ ret'.val = Null
       /\ tables' = tables
       /\ calls'[ret'.task] = Idle]_vars

\* updatePRForExercise has returned for an exercise that was deleted.
UpdatePRSkipsMissingExerciseWitness ==
  /\ ret.op = "updatePRForExercise" /\ ret.step = "pr-load" /\ ret.done
  /\ ret.arg \notin DOMAIN exercises
  /\ ret.arg < nextId.exercises

\* C25: every PR row belongs to an exercise that is in the store.
EveryPRHasExercise == \A e \in DOMAIN prs : e \in DOMAIN exercises

\* ---------------------------------------------------------------- template cascade
\* Templates are created, filled and deleted, a deleteTemplate failing at any
\* of its requests.
NextTemplateCascade ==
  \E t \in Tasks :
    \/ AddTemplate(t, BenchPress)
    \/ \E tpl \in DOMAIN templates, e \in Ids : AddTemplateItemLookup(t, tpl, e)
    \/ AddTemplateItemCount(t)
    \/ AddTemplateItemAdd(t)
    \/ \E tpl \in Ids : DeleteTemplateBegin(t, tpl)
    \/ DeleteTemplateItems(t)
    \/ DeleteTemplateRow(t)
    \/ DeleteTemplateCommit(t)
    \/ TxAbort(t)

SpecTemplateCascade == Init /\ [][NextTemplateCascade]_vars

\* C23: when deleteTemplate(id) completes, template id and the items of
\* template id are gone, and the other templates and items are as they were
\* when its transaction opened; when it fails, both tables are as they were.
DeleteTemplateCascades ==
  [][ret'.op = "deleteTemplate" =>
       LET id == ret'.arg
           snap == calls[ret'.task].tx.snap
           kept == {k \in DOMAIN snap.templateItems : snap.templateItems[k].templateId # id}
       IN /\ ret'.step = "commit" =>
               /\ templates' = DeleteKeys(snap.templates, {id})
               /\ DOMAIN templateItems' = kept
               /\ \A k \in kept : templateItems'[k] = snap.templateItems[k]
          /\ ret'.step = "abort" =>
               /\ templates' = snap.templates
               /\ templateItems' = snap.templateItems]_vars

\* deleteTemplate has completed for a template that had an item, and the item
\* of another template is still in the store.
DeleteTemplateCascadesWitness ==
  /\ ret.op = "deleteTemplate" /\ ret.step = "commit"
  /\ ret.arg < nextId.templates /\ ret.arg \notin DOMAIN templates
  /\ nextId.templateItems > Cardinality(DOMAIN templateItems) + 1
  /\ templateItems # EmptyTable
  /\ \A k \in DOMAIN templateItems : templateItems[k].templateId \in DOMAIN templates

\* ---------------------------------------------------------------- isTimed and logged sets
\* C24: no step changes the isTimed flag of an exercise that a set in the
\* store references.
IsTimedFrozenWithSets ==
  [][\A e \in (DOMAIN exercises) \cap (DOMAIN exercises') :
       (\E k \in DOMAIN sets : sets[k].exerciseId = e)
         => exercises'[e].isTimed = exercises[e].isTimed]_vars

\* ---------------------------------------------------------------- PR cache under the log screen
\* The log screen of two contexts: sets are added and deleted, each change
\* followed by updatePRForExercise for its exercise, and recalcAllPRs runs
\* as it does when the application starts.
NextLogScreen ==
  \E t \in Tasks :
    \/ /\ exercises = EmptyTable
       /\ AddExercise(t, BenchPress, "weighted", FALSE)
    \/ \E e \in DOMAIN exercises, in \in {[reps |-> 5, weightKg |-> 100],
                                          [reps |-> 3, weightKg |-> 110]} :
         AddExerciseSetsAdd(t, e, in.reps, in.weightKg)
    \/ \E k \in DOMAIN sets : HandleDeleteSetGet(t, k)
    \/ HandleDeleteSetDelete(t)
    \/ RecalcAllPRs(t)
    \/ RecalcNext(t)
    \/ PRPut(t)

SpecLogScreen == Init /\ [][NextLogScreen]_vars

\* C26: when no call is in flight, the PR row of every exercise that has
\* sets, or a PR row, holds for each metric the maximum over the sets the
\* exercise has now.
PRRowCurrentWhenQuiet ==
  (\A t \in Tasks : IsIdle(t)) =>
    \A e \in DOMAIN exercises :
      LET current == {sets[k] : k \in SetsOf(sets, e)}
      IN (current # {} \/ e \in DOMAIN prs) =>
           /\ e \in DOMAIN prs
           /\ \A m \in Metrics : prs[e][m] = BestOver(current, m)

\* ---------------------------------------------------------------- template item order
\* One caller adds exercises to a template and removes items, one call after
\* the other.
NextTemplateOrder ==
  LET t == SetMin(Tasks)
  IN \/ /\ templates = EmptyTable
        /\ AddTemplate(t, BenchPress)
     \/ \E tpl \in DOMAIN templates, e \in 1..MaxItems : AddTemplateItemLookup(t, tpl, e)
     \/ AddTemplateItemCount(t)
     \/ AddTemplateItemAdd(t)
     \/ \E k \in DOMAIN templateItems : DeleteTemplateItem(t, k)

SpecTemplateOrder == Init /\ [][NextTemplateOrder]_vars

\* C27: no two items of a template have the same order.
TemplateOrdersUnique ==
  \A j, k \in DOMAIN templateItems :
    (j # k /\ templateItems[j].templateId = templateItems[k].templateId)
      => templateItems[j].order # templateItems[k].order

\* ---------------------------------------------------------------- set field values
\* The values a caller can hand over for reps, weightKg and durationSec: a
\* number, a string, and null or nothing at all.
FieldInputs == {5, Str, Null}

\* Patches that set reps or durationSec to one of these values.
FieldPatchInputs ==
  {[reps |-> v] : v \in FieldInputs} \cup {[durationSec |-> v] : v \in FieldInputs}

\* One caller adds sets and edits them with any of these values, one call
\* after the other.
NextSetValues ==
  LET t == SetMin(Tasks)
  IN \/ \E reps \in FieldInputs, weightKg \in FieldInputs :
          AddSet(t, 1, 1, 1, reps, weightKg, Str)
     \/ \E id \in DOMAIN sets, patch \in FieldPatchInputs : UpdateSetGet(t, id, patch)
     \/ UpdateSetUpdate(t)

SpecSetValues == Init /\ [][NextSetValues]_vars

\* C28: reps, weightKg and durationSec of every stored set are each a number
\* or null.
SetFieldsNumericOrNull ==
  \A k \in DOMAIN sets : \A f \in {"reps", "weightKg", "durationSec"} :
    sets[k][f] = Null \/ IsNumber(sets[k][f])

\* ---------------------------------------------------------------- failing imports
\* One caller restores backups in either mode; a request of the import's
\* transaction or of the PR recompute after it can fail.
NextImportFailure ==
  LET t == SetMin(Tasks)
  IN \/ \E p \in ImportPayloads, m \in KnownModes : ImportAllBegin(t, p, m)
     \/ ImportAllClear(t)
     \/ ImportAllPut(t)
     \/ ImportAllCommit(t)
     \/ ImportAllRecalc(t)
     \/ RecalcNext(t)
     \/ PRPut(t)
     \/ TxAbort(t)
     \/ RecalcFail(t)

SpecImportFailure == Init /\ [][NextImportFailure]_vars

\* C29: an importAll that rejects, at its validation, inside its transaction
\* or in the PR recompute after it, leaves every table as it was when the
\* call started.
ImportAllOrNothing ==
  [][(ret'.op = "importAll" /\ ret'.step \in {"validate", "abort", "fail"}) =>
       IF ret'.step = "validate"
       THEN tables' = tables
       ELSE \A T \in TableNames : StoreAfter[T] = calls[ret'.task].tx.snap[T]]_vars

\* ---------------------------------------------------------------- set references
\* Exercises and workouts are created, sets are added for the first workout
\* id and any exercise id, edited and deleted, and exercises are deleted.
NextReferences ==
  \E t \in Tasks :
    \/ AddExercise(t, BenchPress, "weighted", FALSE)
    \/ CreateWorkoutLookup(t, DayA, "")
    \/ CreateWorkoutAdd(t)
    \/ \E e \in Ids : AddSet(t, 1, e, 1, 5, 100, Null)
    \/ \E id \in DOMAIN sets, patch \in {[reps |-> 0], [exerciseId |-> 2]} :
         UpdateSetGet(t, id, patch)
    \/ UpdateSetUpdate(t)
    \/ \E id \in DOMAIN sets : DeleteSetGet(t, id)
    \/ DeleteSetDelete(t)
    \/ \E e \in DOMAIN exercises : DeleteExerciseBegin(t, e)
    \/ DeleteExerciseSets(t)
    \/ DeleteExercisePR(t)
    \/ DeleteExerciseRow(t)
    \/ DeleteExerciseCommit(t)

SpecReferences == Init /\ [][NextReferences]_vars

\* C30: the exerciseId of every set is the id of an exercise in the store and
\* its workoutId the id of a workout in the store.
SetsReferenceExistingRows ==
  \A k \in DOMAIN sets :
    sets[k].exerciseId \in DOMAIN exercises /\ sets[k].workoutId \in DOMAIN workouts

====
